---- MODULE Spec2Model ----
(***************************************************************************)
(* Clothing Recommendation API (src/app.py): the prediction service's      *)
(* startup, its input validator and its /predict and /predict/batch        *)
(* handlers, as a state machine over (model, request, response).           *)
(*                                                                         *)
(* Numbers.  A finite float is an integer count of 1/Scale units, so that  *)
(* values strictly between two integers exist (50 + 1/Scale is just above  *)
(* the temperature bound).  Python's float() is the operator Float, with   *)
(* its three exceptions; json.loads is represented by the value it         *)
(* returns (a JSON document), never by the text.                           *)
(***************************************************************************)
EXTENDS Integers, Sequences, FiniteSets, TLC

\* ------------------------------------------------------------------ bounds
\* Scale: float resolution; ProbScale: probability resolution; MaxShort: the
\* longest batch whose entries are enumerated freely.
Scale == 10
ProbScale == 10000
MaxShort == 3
NumThreads == 2

\* ------------------------------------------------- constants of src/app.py
TempMin == -50
TempMax == 50
HumidityMin == 0
HumidityMax == 100
WindMin == 0
WindMax == 50
MaxBatchSize == 100

required_fields == <<"temperature", "humidity", "wind_speed">>

\* ----------------------------------------------------------- JSON scalars
\* Every scalar is a record [k, v, s]: k the JSON/Python type, v the numeric
\* payload (1/Scale units), s the text of a string.
Num(v) == [k |-> "number", v |-> v, s |-> ""]
BigInt == [k |-> "bigint", v |-> 0, s |-> ""]
NaNLit == [k |-> "nan", v |-> 0, s |-> ""]
InfLit == [k |-> "inf", v |-> 0, s |-> ""]
Bool(b) == [k |-> "boolean", v |-> IF b THEN 1 ELSE 0, s |-> ""]
Str(s) == [k |-> "string", v |-> 0, s |-> s]
Null == [k |-> "null", v |-> 0, s |-> ""]
ListVal == [k |-> "array", v |-> 0, s |-> ""]
Absent == [k |-> "absent", v |-> 0, s |-> ""]

\* ------------------------------------------------------------ Python float
Fin(v) == [c |-> "finite", v |-> v]
FNaN == [c |-> "nan", v |-> 0]
FInf == [c |-> "inf", v |-> 0]

\* float(str): the texts the model sends, parsed as Python parses them.
FloatOfText(s) ==
  CASE s = "15" -> [exc |-> "", f |-> Fin(15 * Scale)]
    [] s = "51" -> [exc |-> "", f |-> Fin(51 * Scale)]
    [] s = "nan" -> [exc |-> "", f |-> FNaN]
    [] OTHER -> [exc |-> "ValueError", f |-> FNaN]

\* float(x) for a JSON value x: the float, or the exception float() raises.
Float(x) ==
  CASE x.k = "number" -> [exc |-> "", f |-> Fin(x.v)]
    [] x.k = "boolean" -> [exc |-> "", f |-> Fin(x.v * Scale)]
    [] x.k = "nan" -> [exc |-> "", f |-> FNaN]
    [] x.k = "inf" -> [exc |-> "", f |-> FInf]
    [] x.k = "bigint" -> [exc |-> "OverflowError", f |-> FNaN]
    [] x.k = "string" -> FloatOfText(x.s)
    [] OTHER -> [exc |-> "TypeError", f |-> FNaN]

\* Between with the bounds themselves excluded.
Between_Exclusive(lo, x, hi) ==
  /\ x.c = "finite"
  /\ lo * Scale < x.v
  /\ x.v < hi * Scale

\* lo <= x <= hi on Python floats (lo, hi integers): every comparison with
\* nan is False, +inf is above every bound.
Between(lo, x, hi) ==
  /\ x.c = "finite"
  /\ lo * Scale <= x.v
  /\ x.v <= hi * Scale

\* --------------------------------------------------------- JSON documents
\* A document in a position where a reading is expected: a record
\* [k, has, temperature, humidity, wind_speed].  For an object the three
\* fields hold the values (Absent when the key is missing); for a string or
\* an array `has` is the set of field names for which `name in data` holds
\* (substring, element).
Obj(t, h, w) ==
  [k |-> "object", has |-> {}, temperature |-> t, humidity |-> h, wind_speed |-> w]
NonObj(kind, has) ==
  [k |-> kind, has |-> has, temperature |-> Absent, humidity |-> Absent,
   wind_speed |-> Absent]

\* Values on which `name in data` is defined (dict, str, list); on any other
\* value (int, float, bool, None) the operator raises TypeError.
IsContainer(data) == data.k \in {"object", "string", "array"}

\* `field in data` (app.py:56) on a container.
Contains(data, field) ==
  IF data.k = "object" THEN data[field] # Absent ELSE field \in data.has

Min(S) == CHOOSE x \in S : \A y \in S : x <= y

\* ------------------------------------------------------------- validation
Ok == [raised |-> "", valid |-> TRUE, error |-> ""]
Err(msg) == [raised |-> "", valid |-> FALSE, error |-> msg]
Raise(exc) == [raised |-> exc, valid |-> FALSE, error |-> ""]

\* Lines 60-76: the three conversions, then the three range checks, inside
\* try/except (ValueError, TypeError).
ValidateValues(data) ==
  IF data.k # "object"
  THEN Err("All weather values must be numeric")
  ELSE
    LET conv == [i \in 1..3 |-> Float(data[required_fields[i]])]
        failed == {i \in 1..3 : conv[i].exc # ""}
    IN IF failed # {}
       THEN IF conv[Min(failed)].exc \in {"ValueError", "TypeError"}
            THEN Err("All weather values must be numeric")
            ELSE Raise(conv[Min(failed)].exc)
       ELSE IF ~Between(TempMin, conv[1].f, TempMax)
            THEN Err("Temperature must be between -50 and 50°C")
            ELSE IF ~Between(HumidityMin, conv[2].f, HumidityMax)
            THEN Err("Humidity must be between 0 and 100%")
            ELSE IF ~Between(WindMin, conv[3].f, WindMax)
            THEN Err("Wind speed must be between 0 and 50 km/h")
            ELSE Ok

\* validate_input naming the last missing field instead of the first.
validate_input_LastMissing(data) ==
  IF ~IsContainer(data)
  THEN Raise("TypeError")
  ELSE
    LET missing == {i \in 1..3 : ~Contains(data, required_fields[i])}
    IN IF missing # {}
       THEN Err("Missing required field: "
                  \o required_fields[CHOOSE i \in missing : \A j \in missing : j <= i])
       ELSE ValidateValues(data)

\* validate_input(data): (is_valid, error_message), or the exception that
\* leaves the function.
validate_input(data) ==
  IF ~IsContainer(data)
  THEN Raise("TypeError")
  ELSE
    LET missing == {i \in 1..3 : ~Contains(data, required_fields[i])}
    IN IF missing # {}
       THEN Err("Missing required field: " \o required_fields[Min(missing)])
       ELSE ValidateValues(data)

\* -------------------------------------------------------------- classifier
\* The model reference is None or the object joblib.load returned.  Tree is
\* the DecisionTreeClassifier train_model.py fits on three features: total
\* on finite inputs.  Faulty stands for any other unpickled object
\* (load_model returns whatever the file holds): here one whose predict
\* raises for a negative first feature.
None == "None"
Tree == "DecisionTreeClassifier"
Faulty == "FaultyClassifier"
Classifiers == {Tree, Faulty}

\* A feature vector: <<temperature, humidity, wind_speed>> in 1/Scale units.
ClfRaises(m, x) == m = Faulty /\ x[1] < 0

\* model.predict(features)[0]: the labelling rules the tree is fitted to.
ClfPredict(m, x) ==
  LET temp == x[1]
      hum == x[2]
      wind == x[3]
  IN CASE temp > 30 * Scale ->
            IF hum > 70 * Scale
            THEN "Light cotton clothes, sandals, sunscreen, hat, stay hydrated"
            ELSE "Lightweight breathable clothes, sunglasses, light colors"
       [] temp >= 20 * Scale /\ temp <= 30 * Scale ->
            IF wind > 15 * Scale
            THEN "T-shirt with light jacket, secure footwear, hair tied up"
            ELSE IF hum > 80 * Scale
            THEN "Light clothes, deodorant, breathable fabrics"
            ELSE "T-shirts, jeans, sneakers, light cardigan for AC"
       [] temp < 20 * Scale /\ hum > 85 * Scale /\ temp >= 10 * Scale ->
            "Waterproof jacket, quick-dry pants, rubber boots, umbrella"
       [] temp < 10 * Scale ->
            IF wind > 20 * Scale
            THEN "Heavy winter coat, scarf, gloves, insulated boots, layered clothing"
            ELSE "Warm sweater, winter coat, dark colors, moisturizer"
       [] OTHER ->
            IF wind > 20 * Scale
            THEN "Windbreaker jacket, closed shoes, hair secured, protective eyewear"
            ELSE IF hum > 75 * Scale
            THEN "Light jacket, quick-dry clothes, comfortable shoes"
            ELSE "Light sweater, jeans, sneakers, light layers"

\* model.predict_proba(features)[0]: the class distribution of the leaf, in
\* 1/ProbScale units; a pure leaf away from the rule thresholds, a mixed
\* leaf (1/3, 2/3) on them.
ClfProba(m, x) ==
  IF x[1] % (10 * Scale) = 0
  THEN <<ProbScale \div 3, ProbScale - (ProbScale \div 3)>>
  ELSE <<0, ProbScale>>

Max(S) == CHOOSE x \in S : \A y \in S : y <= x

\* round(confidence, 3): p in 1/ProbScale units to thousandths, ties to even.
Round3(p) ==
  LET q == (p * 1000) \div ProbScale
      r == (p * 1000) % ProbScale
  IN IF 2 * r > ProbScale THEN q + 1
     ELSE IF 2 * r = ProbScale THEN q + (q % 2)
     ELSE q

\* The feature vector built in the order wind_speed, humidity, temperature.
Features_Reversed(data) ==
  [i \in 1..3 |-> Float(data[required_fields[4 - i]]).f.v]

\* The feature vector of a validated reading (app.py:160-164, 242-246).
Features(data) ==
  [i \in 1..3 |-> Float(data[required_fields[i]]).f.v]

\* Echo with humidity and wind_speed taken from each other's field.
Echo_Swapped(data) ==
  [temperature |-> Float(data.temperature).f,
   humidity |-> Float(data.wind_speed).f,
   wind_speed |-> Float(data.humidity).f]

\* The echoed weather_conditions of a response (app.py:177-181, 257-261).
Echo(data) ==
  [temperature |-> Float(data.temperature).f,
   humidity |-> Float(data.humidity).f,
   wind_speed |-> Float(data.wind_speed).f]

\* datetime.now().isoformat()
Timestamp == "isoformat"

\* ------------------------------------------------------ request.get_json()
\* A request body: kind "nonjson" (the Content-Type is not JSON, as for a
\* POST without body), "malformed" (JSON Content-Type, text that does not
\* parse) or "json" (doc is the parsed value).  The outcome is
\* [exc, isNone, doc].  For a non-JSON Content-Type Flask before 2.1 returns
\* None and Flask 2.1 or later raises 415 Unsupported Media Type; the
\* repository pins no version, so `strict` says which one is installed.
get_json(body, strict) ==
  CASE body.kind = "malformed" ->
         [exc |-> "400 Bad Request", isNone |-> FALSE, doc |-> body.doc]
    [] body.kind = "nonjson" ->
         IF strict
         THEN [exc |-> "415 Unsupported Media Type", isNone |-> FALSE,
               doc |-> body.doc]
         ELSE [exc |-> "", isNone |-> TRUE, doc |-> body.doc]
    [] OTHER ->
         [exc |-> "", isNone |-> body.doc.k = "null", doc |-> body.doc]

\* -------------------------------------------------------------- responses
ErrorResponse(code, msg) == [status |-> code, error |-> msg]

\* An exception that leaves a view function: Flask answers through the
\* registered 500 handler.
internal_error == ErrorResponse(500, "Internal server error")

\* Lines 158-190 of predict: score one validated reading.
Score(m, data) ==
  IF ClfRaises(m, Features(data))
  THEN ErrorResponse(500, "Prediction failed: classifier raised")
  ELSE [status |-> 200,
        suggestion |-> ClfPredict(m, Features(data)),
        confidence |-> Round3(Max({ClfProba(m, Features(data))[j] :
                         j \in DOMAIN ClfProba(m, Features(data))})),
        weather_conditions |-> Echo(data),
        timestamp |-> Timestamp]

\* The handlers without their model check.
ModelMissing_Never(m) == FALSE

\* `if model is None` (app.py:139, 206)
ModelMissing(m) == m = None

\* POST /predict
predict(m, body, strict) ==
  IF ModelMissing(m)
  THEN [status |-> 500,
        error |-> "Model not loaded. Please ensure the model file exists.",
        solution |-> "Run \"python train_model.py\" to train and save the model"]
  ELSE
    LET got == get_json(body, strict)
    IN IF got.exc # ""
       THEN ErrorResponse(400, "Invalid JSON: " \o got.exc)
       ELSE IF got.isNone
       THEN ErrorResponse(400, "No JSON data provided")
       ELSE
         LET v == validate_input(got.doc)
         IN IF v.raised # "" THEN internal_error
            ELSE IF ~v.valid THEN ErrorResponse(400, v.error)
            ELSE Score(m, got.doc)

\* The classifier calls predict makes, in order (app.py:167, 170).
ScoreCalls(m, data) ==
  IF ClfRaises(m, Features(data))
  THEN << <<"predict", Features(data)>> >>
  ELSE << <<"predict", Features(data)>>, <<"predict_proba", Features(data)>> >>

predictCalls(m, body, strict) ==
  IF ModelMissing(m) THEN <<>>
  ELSE
    LET got == get_json(body, strict)
    IN IF got.exc # "" \/ got.isNone THEN <<>>
       ELSE IF validate_input(got.doc).valid THEN ScoreCalls(m, got.doc)
       ELSE <<>>

\* ----------------------------------------------------- POST /predict/batch
\* The body of a batch request parses to a top-level value
\* [k, hasWC, wc]: hasWC is `'weather_conditions' in data`, wc the value
\* under that key, [k, items] (items the list, 1-based here, 0-based in the
\* responses).
BatchDoc(kind, hasWC, wc) == [k |-> kind, hasWC |-> hasWC, wc |-> wc]
WcList(items) == [k |-> "array", items |-> items]
WcOther(kind) == [k |-> kind, items |-> <<>>]

\* BatchResult numbering the results from 1.
BatchResult_OneBased(m, i, condition) ==
  [index |-> i + 1,
   suggestion |-> ClfPredict(m, Features(condition)),
   confidence |-> Round3(Max({ClfProba(m, Features(condition))[j] :
                    j \in DOMAIN ClfProba(m, Features(condition))})),
   weather_conditions |-> Echo(condition)]

\* One result of the predictions list (app.py:253-262).
BatchResult(m, i, condition) ==
  [index |-> i,
   suggestion |-> ClfPredict(m, Features(condition)),
   confidence |-> Round3(Max({ClfProba(m, Features(condition))[j] :
                    j \in DOMAIN ClfProba(m, Features(condition))})),
   weather_conditions |-> Echo(condition)]

\* What one pass of the loop body does with one entry (app.py:234-267):
\* validate_input raises, rejects, or accepts; then the classifier raises
\* or the result is appended.
EntryStep(m, condition) ==
  LET v == validate_input(condition)
  IN IF v.raised # "" THEN "raise"
     ELSE IF ~v.valid THEN "invalid"
     ELSE IF ClfRaises(m, Features(condition)) THEN "predict_failed"
     ELSE "appended"

\* The classifier calls for the first n entries, all of them appended.
CallsUpTo(m, items, n) ==
  [j \in 1..(2 * n) |->
     <<IF j % 2 = 1 THEN "predict" ELSE "predict_proba",
       Features(items[(j + 1) \div 2])>>]

\* The loop skipping the entries it cannot append and answering with the
\* results of the others.
BatchLoop_SkipInvalid(m, items) ==
  LET kept == SelectSeq(items, LAMBDA e : EntryStep(m, e) = "appended")
      results == [i \in 1..Len(kept) |-> BatchResult(m, i - 1, kept[i])]
  IN [response |-> [status |-> 200, predictions |-> results,
                    count |-> Len(results), timestamp |-> Timestamp],
      calls |-> CallsUpTo(m, kept, Len(kept))]

\* The for loop of predict_batch (app.py:230-273): the entries are taken in
\* index order and the first one that is not appended ends the request; the
\* results of the entries before it are dropped with the local list.
BatchLoop(m, items) ==
  LET stops == {i \in 1..Len(items) : EntryStep(m, items[i]) # "appended"}
  IN IF stops = {}
     THEN LET results == [i \in 1..Len(items) |->
                            BatchResult(m, i - 1, items[i])]
          IN [response |-> [status |-> 200, predictions |-> results,
                            count |-> Len(results), timestamp |-> Timestamp],
              calls |-> CallsUpTo(m, items, Len(items))]
     ELSE
       LET k == Min(stops)
           step == EntryStep(m, items[k])
       IN CASE step = "raise" ->
                 [response |-> internal_error,
                  calls |-> CallsUpTo(m, items, k - 1)]
            [] step = "invalid" ->
                 [response |-> ErrorResponse(400,
                    "Invalid weather condition at index " \o ToString(k - 1)
                      \o ": " \o validate_input(items[k]).error),
                  calls |-> CallsUpTo(m, items, k - 1)]
            [] OTHER ->
                 [response |-> ErrorResponse(500,
                    "Prediction failed for condition at index "
                      \o ToString(k - 1) \o ": classifier raised"),
                  calls |-> CallsUpTo(m, items, k - 1)
                              \o ScoreCalls(m, items[k])]

NoCalls(resp) == [response |-> resp, calls |-> <<>>]

\* The size limit with 100 entries already rejected.
TooLarge_Inclusive(n) == n >= MaxBatchSize

\* `len(weather_conditions) > 100` (app.py:227)
TooLarge(n) == n > MaxBatchSize

\* predict_batch: the response and the classifier calls of one request.
BatchRun(m, body, strict) ==
  IF ModelMissing(m)
  THEN NoCalls(ErrorResponse(500,
         "Model not loaded. Please ensure the model file exists."))
  ELSE
    LET got == get_json(body, strict)
        data == got.doc
    IN IF got.exc # ""
       THEN NoCalls(ErrorResponse(400, "Invalid JSON: " \o got.exc))
       ELSE IF got.isNone
       THEN NoCalls(ErrorResponse(400, "No weather_conditions array provided"))
       ELSE IF data.k \notin {"object", "string", "array"}
       THEN NoCalls(ErrorResponse(400,
              "Invalid JSON: argument of type is not iterable"))
       ELSE IF ~data.hasWC
       THEN NoCalls(ErrorResponse(400, "No weather_conditions array provided"))
       ELSE IF data.k # "object"
       THEN NoCalls(internal_error)
       ELSE IF data.wc.k # "array"
       THEN NoCalls(ErrorResponse(400, "weather_conditions must be an array"))
       ELSE IF Len(data.wc.items) = 0
       THEN NoCalls(ErrorResponse(400,
              "weather_conditions array cannot be empty"))
       ELSE IF TooLarge(Len(data.wc.items))
       THEN NoCalls(ErrorResponse(400,
              "Batch size cannot exceed 100 predictions"))
       ELSE BatchLoop(m, data.wc.items)

predict_batch(m, body, strict) == BatchRun(m, body, strict).response

\* ----------------------------------------------------------------- startup
\* load_model('model.joblib'): the file's object, or None when the file is
\* absent or joblib.load raises.
load_model(file) ==
  IF file \in {"absent", "corrupt"} THEN None ELSE file

\* save_model (train_model.py:134-148): the classifier is written to
\* data/model.joblib; the result is the new content of that file.
save_model(m) == m

\* health_check (app.py:107-117); body is the JSON document.
health_check(m) ==
  [status |-> 200,
   body |-> [status |-> "healthy",
             timestamp |-> Timestamp,
             model_status |-> IF m # None THEN "loaded" ELSE "not_loaded",
             model_loaded |-> m # None]]

\* ------------------------------------------------------------------ inputs
TempValues ==
  {Num(TempMin * Scale - 1), Num(TempMin * Scale), Num(15 * Scale),
   Num(TempMax * Scale), Num(TempMax * Scale + 1)}
HumidityValues ==
  {Num(HumidityMin * Scale - 1), Num(HumidityMin * Scale), Num(50 * Scale),
   Num(HumidityMax * Scale), Num(HumidityMax * Scale + 1)}
WindValues ==
  {Num(WindMin * Scale - 1), Num(WindMin * Scale), Num(WindMax * Scale),
   Num(WindMax * Scale + 1)}
OddValues ==
  {Absent, BigInt, NaNLit, InfLit, Str("hot"), Str("15"), Bool(TRUE), Null,
   ListVal}

Readings ==
  {Obj(t, h, w) : t \in TempValues \cup OddValues,
                  h \in HumidityValues \cup OddValues,
                  w \in WindValues \cup OddValues}

AllFields == {required_fields[i] : i \in 1..3}
NonObjects ==
  {NonObj("number", {}), NonObj("boolean", {}), NonObj("null", {}),
   NonObj("string", {}), NonObj("string", {"temperature"}),
   NonObj("string", AllFields), NonObj("array", {}),
   NonObj("array", AllFields)}

JsonBody(doc) == [kind |-> "json", doc |-> doc]
NoJsonBody == [kind |-> "nonjson", doc |-> NonObj("null", {})]
MalformedBody == [kind |-> "malformed", doc |-> NonObj("null", {})]

PredictBodies ==
  {NoJsonBody, MalformedBody} \cup {JsonBody(d) : d \in Readings \cup NonObjects}

\* Bodies sent to the web interface: selected ones that upstream answers
\* with 200, 400 and 500, and the ones that are no JSON document.
ProxyBodies ==
  {NoJsonBody, MalformedBody, JsonBody(NonObj("null", {})),
   JsonBody(Obj(Num(15 * Scale), Num(50 * Scale), Num(WindMax * Scale))),
   JsonBody(Obj(Num(TempMin * Scale), Str("15"), Bool(TRUE))),
   JsonBody(Obj(Num(TempMax * Scale + 1), Num(50 * Scale), Num(5 * Scale))),
   JsonBody(Obj(Num(15 * Scale), Num(50 * Scale), Absent)),
   JsonBody(Obj(Num(15 * Scale), BigInt, Num(5 * Scale))),
   JsonBody(NonObj("array", {}))}

\* Entries of a batch.
ValidA == Obj(Num(15 * Scale), Num(50 * Scale), Num(WindMax * Scale))
ValidB == Obj(Num(TempMin * Scale), Num(HumidityMax * Scale), Num(WindMin * Scale))
EntryProbes ==
  {ValidA, ValidB,
   Obj(Num(TempMax * Scale + 1), Num(50 * Scale), Num(5 * Scale)),
   Obj(Num(15 * Scale), Num(50 * Scale), Absent),
   Obj(Str("hot"), Num(HumidityMax * Scale + 1), Num(5 * Scale)),
   Obj(Num(15 * Scale), BigInt, Num(5 * Scale)),
   NonObj("number", {})}

ShortLists == UNION {[1..n -> EntryProbes] : n \in 0..MaxShort}

\* Lists around the size limit: ValidA everywhere but at one position.
LongLists ==
  {[i \in 1..n |-> IF i = p THEN e ELSE ValidA] :
     n \in {MaxBatchSize - 1, MaxBatchSize, MaxBatchSize + 1},
     p \in {1, 6, MaxBatchSize - 1},
     e \in EntryProbes}

BatchDocs ==
  {BatchDoc("object", TRUE, WcList(l)) : l \in ShortLists \cup LongLists}
  \cup {BatchDoc("object", TRUE, WcOther(kd)) :
          kd \in {"object", "string", "number", "null"}}
  \cup {BatchDoc("object", FALSE, WcOther("null"))}
  \cup {BatchDoc(kd, hw, WcOther("null")) :
          kd \in {"string", "array"}, hw \in BOOLEAN}
  \cup {BatchDoc(kd, FALSE, WcOther("null")) :
          kd \in {"number", "boolean", "null"}}

BatchBodies ==
  {[kind |-> "nonjson", doc |-> BatchDoc("null", FALSE, WcOther("null"))],
   [kind |-> "malformed", doc |-> BatchDoc("null", FALSE, WcOther("null"))]}
  \cup {JsonBody(d) : d \in BatchDocs}

\* ------------------------------------------------------- handler threads
\* app.run serves each request in a thread of its own.  A thread holds the
\* locals of the view function: pc (the statement it is at), the request
\* (path, body), data (the parsed document), i (the loop index), results
\* (the local list of predict_batch), resp (the response once pc = "done")
\* and log, the order in which the thread validated entries and called the
\* classifier: <<"validate", i>>, <<"predict", i>>, <<"predict_proba", i>>.
Threads == 1..NumThreads
IdleThread ==
  [pc |-> "idle", path |-> "", body |-> NoJsonBody, data |-> NonObj("null", {}),
   i |-> 0, results |-> <<>>, resp |-> [status |-> 0], log |-> <<>>]

\* Requests handled concurrently: readings answered 200, 400 and 500, and
\* lists whose second entry is valid, invalid, or fails in the classifier.
ThreadBodies(path) ==
  IF path = "/predict"
  THEN {NoJsonBody, JsonBody(ValidA), JsonBody(ValidB),
        JsonBody(Obj(Num(15 * Scale), Num(50 * Scale), Absent))}
  ELSE {JsonBody(BatchDoc("object", TRUE, WcList(l))) :
          l \in {<<ValidA>>, <<ValidA, ValidB, ValidA>>,
                 <<ValidB, Obj(Num(15 * Scale), BigInt, Num(5 * Scale)), ValidA>>,
                 <<ValidA, Obj(Num(TempMax * Scale + 1), Num(50 * Scale),
                               Num(5 * Scale)), ValidB>>}}
        \cup {JsonBody(BatchDoc("object", TRUE, WcList(<<>>))),
              JsonBody(BatchDoc("object", FALSE, WcOther("null")))}

Finish(th, resp) == [th EXCEPT !.pc = "done", !.resp = resp]
Goto(th, pc) == [th EXCEPT !.pc = pc]
Logged(th, events) == [th EXCEPT !.log = @ \o events]

\* results.append(...) writing a list all threads share.
AppendResult_Shared(ths, t, r) ==
  [u \in DOMAIN ths |-> [ths[u] EXCEPT !.results = Append(@, r)]]

\* results.append(...) (app.py:253): results is a local of the call.
AppendResult(ths, t, r) ==
  [ths EXCEPT ![t].results = Append(@, r)]

\* `if model is None` of either handler (app.py:139-143, 206-209).
StepModelCheck(th, m) ==
  IF ModelMissing(m)
  THEN Finish(th, IF th.path = "/predict"
                  THEN [status |-> 500,
                        error |-> "Model not loaded. Please ensure the model file exists.",
                        solution |-> "Run \"python train_model.py\" to train and save the model"]
                  ELSE ErrorResponse(500,
                         "Model not loaded. Please ensure the model file exists."))
  ELSE Goto(th, "get_json")

\* predict: request.get_json() and the None test (app.py:146-151).
StepGetJson(th, strict) ==
  LET got == get_json(th.body, strict)
  IN IF got.exc # ""
     THEN Finish(th, ErrorResponse(400, "Invalid JSON: " \o got.exc))
     ELSE IF got.isNone
     THEN Finish(th, ErrorResponse(400, "No JSON data provided"))
     ELSE [th EXCEPT !.pc = "validate", !.data = got.doc]

\* predict: validate_input(data) (app.py:154-156).
StepValidate(th) ==
  LET v == validate_input(th.data)
      seen == Logged(th, << <<"validate", 0>> >>)
  IN IF v.raised # "" THEN Finish(seen, internal_error)
     ELSE IF ~v.valid THEN Finish(seen, ErrorResponse(400, v.error))
     ELSE Goto(seen, "score")

\* A classifier failure answered with the results gathered so far.
PredictionFailed_Partial(th) ==
  Finish(th, [status |-> 200, predictions |-> th.results,
              count |-> Len(th.results), timestamp |-> Timestamp])

\* predict_batch: the except clause of the loop body (app.py:264-267).
PredictionFailed(th) ==
  Finish(th, ErrorResponse(500,
    "Prediction failed for condition at index "
      \o ToString(th.i) \o ": classifier raised"))

\* The log entries of the classifier calls for entry i.
CallEvents(m, data, i) ==
  [j \in DOMAIN ScoreCalls(m, data) |-> <<ScoreCalls(m, data)[j][1], i>>]

\* predict: the scoring try block (app.py:158-190); it reads the global.
StepScore(th, m) ==
  Finish(Logged(th, CallEvents(m, th.data, 0)), Score(m, th.data))

\* predict_batch: get_json and the tests on the list (app.py:212-228).
StepBatchGetJson(th, strict) ==
  LET got == get_json(th.body, strict)
      data == got.doc
  IN IF got.exc # ""
     THEN Finish(th, ErrorResponse(400, "Invalid JSON: " \o got.exc))
     ELSE IF got.isNone
     THEN Finish(th, ErrorResponse(400, "No weather_conditions array provided"))
     ELSE IF data.k \notin {"object", "string", "array"}
     THEN Finish(th, ErrorResponse(400,
            "Invalid JSON: argument of type is not iterable"))
     ELSE IF ~data.hasWC
     THEN Finish(th, ErrorResponse(400, "No weather_conditions array provided"))
     ELSE IF data.k # "object"
     THEN Finish(th, internal_error)
     ELSE IF data.wc.k # "array"
     THEN Finish(th, ErrorResponse(400, "weather_conditions must be an array"))
     ELSE IF Len(data.wc.items) = 0
     THEN Finish(th, ErrorResponse(400,
            "weather_conditions array cannot be empty"))
     ELSE IF TooLarge(Len(data.wc.items))
     THEN Finish(th, ErrorResponse(400,
            "Batch size cannot exceed 100 predictions"))
     ELSE [th EXCEPT !.pc = "loop", !.data = data, !.i = 0, !.results = <<>>]

\* The loop passing over an entry that fails validation.
StepLoop_SkipsInvalid(th) ==
  IF th.i = Len(th.data.wc.items)
  THEN Finish(th, [status |-> 200, predictions |-> th.results,
                   count |-> Len(th.results), timestamp |-> Timestamp])
  ELSE
    LET v == validate_input(th.data.wc.items[th.i + 1])
        seen == Logged(th, << <<"validate", th.i>> >>)
    IN IF v.raised # "" THEN Finish(seen, internal_error)
       ELSE IF ~v.valid THEN [seen EXCEPT !.i = @ + 1]
       ELSE Goto(seen, "loop_score")

\* predict_batch: the head of the for loop and validate_input(condition)
\* (app.py:232-238), or the final response once the list is exhausted
\* (app.py:269-273).
StepLoop(th) ==
  IF th.i = Len(th.data.wc.items)
  THEN Finish(th, [status |-> 200, predictions |-> th.results,
                   count |-> Len(th.results), timestamp |-> Timestamp])
  ELSE
    LET v == validate_input(th.data.wc.items[th.i + 1])
        seen == Logged(th, << <<"validate", th.i>> >>)
    IN IF v.raised # "" THEN Finish(seen, internal_error)
       ELSE IF ~v.valid
       THEN Finish(seen, ErrorResponse(400,
              "Invalid weather condition at index " \o ToString(th.i)
                \o ": " \o v.error))
       ELSE Goto(seen, "loop_score")

\* home (app.py:80-105).  file is what open('static/index.html') meets in
\* the working directory, [k, content]: "absent" (FileNotFoundError), a
\* "text" file, or "undecodable" (the file is there but open or read raises
\* another error: PermissionError, IsADirectoryError, UnicodeDecodeError),
\* which leaves the view and is answered by the 500 handler.
StaticFile(k, content) == [k |-> k, content |-> content]
StaticFiles ==
  {StaticFile("absent", ""), StaticFile("undecodable", ""),
   StaticFile("text", "<!DOCTYPE html>")}
\* The JSON description; message stands for the source's text, which
\* begins with a T-shirt emoji.
ApiInfo ==
  [message |-> "Clothing Recommendation API",
   version |-> "1.0.0",
   endpoints |-> {"GET /", "POST /predict", "GET /health"},
   usage |-> [method |-> "POST", endpoint |-> "/predict",
              body |-> {"temperature", "humidity", "wind_speed"}]]
home(file) ==
  IF file.k = "absent"
  THEN [status |-> 200, content_type |-> "application/json", body |-> ApiInfo]
  ELSE IF file.k = "undecodable"
  THEN internal_error
  ELSE [status |-> 200, content_type |-> "text/html", body |-> file.content]

\* --------------------------------------------------------- web interface
\* What a call of requests.get / requests.post to API_URL can meet:
\*   "ok"               the prediction service answers
\*   "refused"          nothing accepts the connection (ConnectionError)
\*   "connect_timeout"  the connection is not made in time (ConnectTimeout)
\*   "read_timeout"     no answer within the timeout (ReadTimeout)
\*   "bad_gateway"      something else at API_URL answers 502 with HTML
\* The service answers only while it is serving.
NetConditions(ph) ==
  {"refused", "connect_timeout", "read_timeout", "bad_gateway"}
    \cup (IF ph = "serving" THEN {"ok"} ELSE {})

\* The exception classes of requests an except clause of web_interface.py
\* names, and the raised classes that are instances of them:
\* ConnectTimeout(ConnectionError, Timeout), ReadTimeout(Timeout).
IsInstance(exc, cls) ==
  CASE cls = "ConnectionError" -> exc \in {"ConnectionError", "ConnectTimeout"}
    [] cls = "Timeout" -> exc \in {"ConnectTimeout", "ReadTimeout"}
    [] OTHER -> FALSE

\* The call made again after a timeout.
UpstreamLog_RetryOnTimeout(method, path, net) ==
  IF net \in {"connect_timeout", "read_timeout"}
  THEN <<[method |-> method, path |-> path, net |-> net],
         [method |-> method, path |-> path, net |-> net]>>
  ELSE <<[method |-> method, path |-> path, net |-> net]>>

\* The HTTP calls one requests.get / requests.post makes
\* (web_interface.py:423, 438-443): one, whatever it meets.
UpstreamLog(method, path, net) ==
  <<[method |-> method, path |-> path, net |-> net]>>

\* The outcome of the upstream call: [exc, resp, json]; json says whether
\* the answer's body is a JSON document.
Upstream(net, served) ==
  CASE net = "ok" -> [exc |-> "", resp |-> served, json |-> TRUE]
    [] net = "bad_gateway" ->
         [exc |-> "", resp |-> [status |-> 502], json |-> FALSE]
    [] net = "refused" ->
         [exc |-> "ConnectionError", resp |-> [status |-> 0], json |-> FALSE]
    [] net = "connect_timeout" ->
         [exc |-> "ConnectTimeout", resp |-> [status |-> 0], json |-> FALSE]
    [] net = "read_timeout" ->
         [exc |-> "ReadTimeout", resp |-> [status |-> 0], json |-> FALSE]

\* api_status reporting a connection only when upstream has a model loaded.
api_status_NeedsModel(up) ==
  IF up.exc # ""
  THEN [status |-> 200, connected |-> FALSE, state |-> "unreachable"]
  ELSE IF up.resp.status = 200 /\ up.resp.body.model_loaded
  THEN [status |-> 200, connected |-> TRUE, state |-> "healthy"]
  ELSE [status |-> 200, connected |-> FALSE, state |-> "unhealthy"]

\* api_status answering 'healthy' for whatever status upstream answered.
api_status_AnyAnswer(up) ==
  IF up.exc # ""
  THEN [status |-> 200, connected |-> FALSE, state |-> "unreachable"]
  ELSE [status |-> 200, connected |-> TRUE, state |-> "healthy"]

\* api_status (web_interface.py:419-429); state is the 'status' field of
\* the JSON document.
api_status(up) ==
  IF up.exc # ""
  THEN [status |-> 200, connected |-> FALSE, state |-> "unreachable"]
  ELSE IF up.resp.status = 200
  THEN [status |-> 200, connected |-> TRUE, state |-> "healthy"]
  ELSE [status |-> 200, connected |-> FALSE, state |-> "unhealthy"]

\* requests.post(json=data) (web_interface.py:436-441): a document is
\* serialised again as the body; for data None no body is sent, and the
\* explicit Content-Type: application/json header goes with an empty body,
\* which does not parse.
Forwarded(got) ==
  IF got.isNone THEN MalformedBody ELSE JsonBody(got.doc)

\* jsonify(api_response.json()), api_response.status_code: the document is
\* parsed and serialised again with the same fields and values.
Relay(resp) == [f \in DOMAIN resp |-> resp[f]]

\* predict of web_interface.py going on after get_json raised.
proxy_predict_IgnoresParseError(got, up) ==
  IF IsInstance(up.exc, "ConnectionError")
  THEN ErrorResponse(503,
         "API server is not running at API_URL. Please start the API first.")
  ELSE IF IsInstance(up.exc, "Timeout")
  THEN ErrorResponse(504, "API request timed out. Please try again.")
  ELSE IF ~up.json THEN ErrorResponse(500, "JSONDecodeError")
  ELSE Relay(up.resp)

\* predict of web_interface.py (431-452) after the upstream call's outcome.
proxy_predict(got, up) ==
  IF got.exc # "" THEN ErrorResponse(500, got.exc)
  ELSE IF IsInstance(up.exc, "ConnectionError")
  THEN ErrorResponse(503,
         "API server is not running at API_URL. Please start the API first.")
  ELSE IF IsInstance(up.exc, "Timeout")
  THEN ErrorResponse(504, "API request timed out. Please try again.")
  ELSE IF ~up.json THEN ErrorResponse(500, "JSONDecodeError")
  ELSE Relay(up.resp)

\* ------------------------------------------------------------------- state
VARIABLES
  model,        \* app.model: None or the loaded classifier
  phase,        \* "imported", "serving" or "exited"
  modelFile,    \* what model.joblib holds in the working directory
  dataFile,     \* what data/model.joblib holds in the working directory
  startedBy,    \* "", "main" (python app.py) or "import" (app served without main)
  flaskStrict,  \* the installed Flask raises on a non-JSON Content-Type
  request,      \* the last request handled by the prediction service
  response,     \* its response
  calls,        \* the classifier calls made while handling it
  proxyRequest,   \* the last request handled by the web interface
  proxyResponse,  \* its response
  upstreamCalls,  \* the HTTP calls the web interface made while handling it
  threads         \* the handler threads of the threaded server: their locals

process == <<model, phase, modelFile, startedBy, flaskStrict, threads>>
exchange == <<request, response, calls>>
proxy == <<proxyRequest, proxyResponse, upstreamCalls>>
vars == <<process, dataFile, exchange, proxy>>

NoRequest == [path |-> "", body |-> NoJsonBody]
NoResponse == [status |-> 0]
Idle == request = NoRequest /\ proxyRequest = NoRequest

Init ==
  /\ model = None
  /\ phase = "imported"
  /\ modelFile \in {"absent", "corrupt"} \cup Classifiers
  /\ dataFile = "absent"
  /\ startedBy = ""
  /\ flaskStrict \in BOOLEAN
  /\ request = NoRequest
  /\ response = NoResponse
  /\ calls = <<>>
  /\ proxyRequest = NoRequest
  /\ proxyResponse = NoResponse
  /\ upstreamCalls = <<>>
  /\ threads = [t \in Threads |-> IdleThread]

\* train_model.py main(): train the decision tree and save it.
Train ==
  /\ dataFile' = save_model(Tree)
  /\ UNCHANGED <<process, exchange, proxy>>

\* main() starting the server although no model was loaded.
Main_ServesAnyway ==
  /\ phase = "imported"
  /\ model' = load_model(modelFile)
  /\ phase' = "serving"
  /\ startedBy' = "main"
  /\ UNCHANGED <<modelFile, flaskStrict, threads, dataFile, exchange, proxy>>

\* main(): load the model; serve only if it loaded.
Main ==
  /\ phase = "imported"
  /\ model' = load_model(modelFile)
  /\ phase' = IF load_model(modelFile) = None THEN "exited" ELSE "serving"
  /\ startedBy' = "main"
  /\ UNCHANGED <<modelFile, flaskStrict, threads, dataFile, exchange, proxy>>

\* The app object served without main() (a WSGI server, or the test client
\* of tests/test_api.py): the module global keeps its initial None.
ServeImported ==
  /\ phase = "imported"
  /\ phase' = "serving"
  /\ startedBy' = "import"
  /\ UNCHANGED <<model, modelFile, flaskStrict, threads, dataFile, exchange, proxy>>

Health ==
  /\ phase = "serving"
  /\ Idle
  /\ request' = [path |-> "/health", body |-> NoJsonBody]
  /\ response' = health_check(model)
  /\ calls' = <<>>
  /\ UNCHANGED <<process, dataFile, proxy>>

Home ==
  /\ phase = "serving"
  /\ Idle
  /\ \E file \in StaticFiles :
       /\ request' = [path |-> "/", body |-> NoJsonBody, static |-> file]
       /\ response' = home(file)
  /\ calls' = <<>>
  /\ UNCHANGED <<process, dataFile, proxy>>

\* predict assigning the module global again on each request.
Predict_ReloadsModel ==
  /\ phase = "serving"
  /\ Idle
  /\ \E body \in PredictBodies :
       /\ request' = [path |-> "/predict", body |-> body]
       /\ response' = predict(model, body, flaskStrict)
       /\ calls' = predictCalls(model, body, flaskStrict)
  /\ model' = load_model(modelFile)
  /\ UNCHANGED <<phase, modelFile, startedBy, flaskStrict, threads, dataFile, proxy>>

Predict ==
  /\ phase = "serving"
  /\ Idle
  /\ \E body \in PredictBodies :
       /\ request' = [path |-> "/predict", body |-> body]
       /\ response' = predict(model, body, flaskStrict)
       /\ calls' = predictCalls(model, body, flaskStrict)
  /\ UNCHANGED <<process, dataFile, proxy>>

PredictBatch ==
  /\ phase = "serving"
  /\ Idle
  /\ \E body \in BatchBodies :
       /\ request' = [path |-> "/predict/batch", body |-> body]
       /\ response' = predict_batch(model, body, flaskStrict)
       /\ calls' = BatchRun(model, body, flaskStrict).calls
  /\ UNCHANGED <<process, dataFile, proxy>>

\* validate_input called directly, as test_validate_input_function does.
ValidateInput ==
  /\ Idle
  /\ \E d \in Readings \cup NonObjects :
       /\ request' = [path |-> "validate_input", body |-> JsonBody(d)]
       /\ response' = validate_input(d)
  /\ calls' = <<>>
  /\ UNCHANGED <<process, dataFile, proxy>>

\* web_interface api_status(): one GET of the upstream /health.  When the
\* prediction service answers, its side of the exchange is health_check.
ApiStatus ==
  /\ Idle
  /\ \E net \in NetConditions(phase) :
       LET up == Upstream(net, health_check(model))
       IN /\ proxyRequest' = [path |-> "/api-status", body |-> NoJsonBody]
          /\ proxyResponse' = api_status(up)
          /\ upstreamCalls' = UpstreamLog("GET", "/health", net)
          /\ IF net = "ok"
             THEN /\ request' = [path |-> "/health", body |-> NoJsonBody]
                  /\ response' = health_check(model)
             ELSE UNCHANGED <<request, response>>
  /\ calls' = <<>>
  /\ UNCHANGED <<process, dataFile>>

\* web_interface predict(): parse the client's body, POST it to the upstream
\* /predict and relay the answer.  When the prediction service answers, its
\* side of the exchange is app.predict on the body requests sent.
ProxyPredict ==
  /\ Idle
  /\ \E body \in ProxyBodies, net \in NetConditions(phase) :
       LET got == get_json(body, flaskStrict)
           sent == Forwarded(got)
           up == Upstream(net, predict(model, sent, flaskStrict))
           reached == got.exc = "" /\ net = "ok"
       IN /\ proxyRequest' = [path |-> "/predict", body |-> body]
          /\ proxyResponse' = proxy_predict(got, up)
          /\ upstreamCalls' =
               IF got.exc = ""
               THEN UpstreamLog("POST", "/predict", net)
               ELSE <<>>
          /\ IF reached
             THEN /\ request' = [path |-> "/predict", body |-> sent]
                  /\ response' = predict(model, sent, flaskStrict)
                  /\ calls' = predictCalls(model, sent, flaskStrict)
             ELSE UNCHANGED exchange
  /\ UNCHANGED <<process, dataFile>>

\* The response has been sent and the request context is gone; nothing of
\* the exchange is kept by either service.
Deliver ==
  /\ ~Idle
  /\ request' = NoRequest
  /\ response' = NoResponse
  /\ calls' = <<>>
  /\ proxyRequest' = NoRequest
  /\ proxyResponse' = NoResponse
  /\ upstreamCalls' = <<>>
  /\ UNCHANGED <<process, dataFile>>

Next ==
  \/ Train
  \/ Main
  \/ ServeImported
  \/ Health
  \/ Home
  \/ Predict
  \/ PredictBatch
  \/ ValidateInput
  \/ ApiStatus
  \/ ProxyPredict
  \/ Deliver

Spec == Init /\ [][Next]_vars

\* ------------------------------------------- requests handled concurrently
\* The same handlers taken statement by statement, one thread per request;
\* the steps of different threads interleave in any order.
served == <<model, phase, modelFile, startedBy, flaskStrict>>

ThreadAccept(t) ==
  /\ phase = "serving"
  /\ threads[t].pc = "idle"
  /\ \E path \in {"/predict", "/predict/batch"} :
       \E body \in ThreadBodies(path) :
         threads' = [threads EXCEPT ![t] =
                       [IdleThread EXCEPT !.pc = "model_check",
                                          !.path = path, !.body = body]]
  /\ UNCHANGED <<served, dataFile, exchange, proxy>>

ThreadModelCheck(t) ==
  /\ threads[t].pc = "model_check"
  /\ threads' = [threads EXCEPT ![t] = StepModelCheck(threads[t], model)]
  /\ UNCHANGED <<served, dataFile, exchange, proxy>>

ThreadGetJson(t) ==
  /\ threads[t].pc = "get_json"
  /\ threads' = [threads EXCEPT ![t] =
                   IF threads[t].path = "/predict"
                   THEN StepGetJson(threads[t], flaskStrict)
                   ELSE StepBatchGetJson(threads[t], flaskStrict)]
  /\ UNCHANGED <<served, dataFile, exchange, proxy>>

ThreadValidate(t) ==
  /\ threads[t].pc = "validate"
  /\ threads' = [threads EXCEPT ![t] = StepValidate(threads[t])]
  /\ UNCHANGED <<served, dataFile, exchange, proxy>>

ThreadScore(t) ==
  /\ threads[t].pc = "score"
  /\ threads' = [threads EXCEPT ![t] = StepScore(threads[t], model)]
  /\ UNCHANGED <<served, dataFile, exchange, proxy>>

ThreadLoop(t) ==
  /\ threads[t].pc = "loop"
  /\ threads' = [threads EXCEPT ![t] = StepLoop(threads[t])]
  /\ UNCHANGED <<served, dataFile, exchange, proxy>>

\* predict_batch: the try block of the loop body (app.py:240-267).
ThreadLoopScore(t) ==
  /\ threads[t].pc = "loop_score"
  /\ LET th == threads[t]
         condition == th.data.wc.items[th.i + 1]
         called == Logged(th, CallEvents(model, condition, th.i))
     IN threads' =
          IF ClfRaises(model, Features(condition))
          THEN [threads EXCEPT ![t] = PredictionFailed(called)]
          ELSE AppendResult(
                 [threads EXCEPT ![t] =
                    [called EXCEPT !.pc = "loop", !.i = th.i + 1]],
                 t, BatchResult(model, th.i, condition))
  /\ UNCHANGED <<served, dataFile, exchange, proxy>>

\* The response is sent and the thread's locals are gone.
ThreadSend(t) ==
  /\ threads[t].pc = "done"
  /\ threads' = [threads EXCEPT ![t] = IdleThread]
  /\ UNCHANGED <<served, dataFile, exchange, proxy>>

ConcNext ==
  \/ Main
  \/ ServeImported
  \/ \E t \in Threads : ThreadAccept(t)
  \/ \E t \in Threads : ThreadModelCheck(t)
  \/ \E t \in Threads : ThreadGetJson(t)
  \/ \E t \in Threads : ThreadValidate(t)
  \/ \E t \in Threads : ThreadScore(t)
  \/ \E t \in Threads : ThreadLoop(t)
  \/ \E t \in Threads : ThreadLoopScore(t)
  \/ \E t \in Threads : ThreadSend(t)

ConcSpec == Init /\ [][ConcNext]_vars

TypeOK ==
  /\ model \in {None} \cup Classifiers
  /\ phase \in {"imported", "serving", "exited"}
  /\ flaskStrict \in BOOLEAN
  /\ dataFile \in {"absent", Tree}
  /\ startedBy \in {"", "main", "import"}
  /\ Len(upstreamCalls) <= 1

\* ================================================================== claims
IsPredict == request.path = "/predict"
IsBatch == request.path = "/predict/batch"
IsValidateCall == request.path = "validate_input"
ModelLoaded == model # None
\* The classifier train_model.py builds is the loaded model.
ClassifierLoaded == model = Tree
JsonObject == request.body.kind = "json" /\ request.body.doc.k = "object"
BatchList ==
  /\ IsBatch
  /\ JsonObject
  /\ request.body.doc.hasWC
  /\ request.body.doc.wc.k = "array"
BatchItems == request.body.doc.wc.items

\* A JSON number within [lo, hi], bounds included.
NumberIn(x, lo, hi) == x.k = "number" /\ lo * Scale <= x.v /\ x.v <= hi * Scale
ValidReading(d) ==
  /\ d.k = "object"
  /\ NumberIn(d.temperature, -50, 50)
  /\ NumberIn(d.humidity, 0, 100)
  /\ NumberIn(d.wind_speed, 0, 50)

AnyMissing(d) == Absent \in {d.temperature, d.humidity, d.wind_speed}
FirstMissing(d) ==
  IF d.temperature = Absent THEN "temperature"
  ELSE IF d.humidity = Absent THEN "humidity"
  ELSE "wind_speed"
\* Values float() cannot coerce; JSON numbers, of any size.
NonNumeric(x) == x \in {Null, ListVal, Str("hot")}
IsNumber(x) == x.k \in {"number", "bigint"}
OutOfRange(x, lo, hi) ==
  \/ x.k = "bigint"
  \/ x.k = "number" /\ (x.v < lo * Scale \/ x.v > hi * Scale)
FirstRangeMessage(d) ==
  IF OutOfRange(d.temperature, -50, 50)
  THEN "Temperature must be between -50 and 50°C"
  ELSE IF OutOfRange(d.humidity, 0, 100)
  THEN "Humidity must be between 0 and 100%"
  ELSE "Wind speed must be between 0 and 50 km/h"
InvalidJsonErrors ==
  {"Invalid JSON: " \o e : e \in {"400 Bad Request", "415 Unsupported Media Type"}}

\* C1: with the trained classifier loaded, /predict on a JSON object whose
\* three fields are numbers within [-50,50], [0,100], [0,50] (bounds
\* included) answers 200 with suggestion, confidence, weather_conditions and
\* timestamp, and 0 <= confidence <= 1 (confidence is in thousandths).
C1_ValidReadingAnswered200 ==
  (IsPredict /\ ClassifierLoaded /\ request.body.kind = "json"
     /\ ValidReading(request.body.doc))
  => /\ response.status = 200
     /\ {"suggestion", "confidence", "weather_conditions", "timestamp"}
          \subseteq DOMAIN response
     /\ response.confidence \in 0..1000

C1_Witness ==
  /\ IsPredict
  /\ ClassifierLoaded
  /\ request.body =
       JsonBody(Obj(Num(-50 * Scale), Num(100 * Scale), Num(50 * Scale)))
  /\ response.status = 200
  /\ response.confidence > 0

C3_NoModelValidation400 ==
  LET d == request.body.doc
      predictCase ==
        /\ IsPredict
        /\ \/ request.body.kind \in {"nonjson", "malformed"}
           \/ JsonObject /\ ~ValidReading(d)
      batchCase ==
        /\ BatchList
        /\ \/ Len(BatchItems) = 0
           \/ Len(BatchItems) > 100
           \/ \E i \in 1..Len(BatchItems) : ~ValidReading(BatchItems[i])
  IN (model = None /\ (predictCase \/ batchCase)) => response.status = 400

\* C4 (as claimed): with the trained classifier loaded, no request body
\* makes /predict or /predict/batch answer 5xx.
C4_NoBodyGives5xx ==
  (ClassifierLoaded /\ (IsPredict \/ IsBatch)) => response.status < 500

\* C5 (as claimed): on a mapping, validate_input returns exactly one error
\* in the precedence missing field, non-numeric value, range violation: the
\* missing-field error whenever a field is missing, and 'All weather values
\* must be numeric' whenever all fields are present and one is non-numeric.
C5_ValidationPrecedence ==
  LET d == request.body.doc
  IN (IsValidateCall /\ d.k = "object")
     => /\ response.raised = ""
        /\ AnyMissing(d)
             => response.error = "Missing required field: " \o FirstMissing(d)
        /\ (~AnyMissing(d)
              /\ \E f \in AllFields : NonNumeric(d[f]))
             => response.error = "All weather values must be numeric"

\* C6 (as claimed): with a model loaded, a /predict object whose three
\* fields are present and numeric, at least one out of range, is answered
\* 400 with the range message of the first violated field in the order
\* temperature, humidity, wind_speed.
C6_FirstRangeViolation ==
  LET d == request.body.doc
  IN (ModelLoaded /\ IsPredict /\ JsonObject
        /\ \A f \in AllFields : IsNumber(d[f])
        /\ \/ OutOfRange(d.temperature, -50, 50)
           \/ OutOfRange(d.humidity, 0, 100)
           \/ OutOfRange(d.wind_speed, 0, 50))
     => /\ response.status = 400
        /\ response.error = FirstRangeMessage(d)

\* C7: with a model loaded, a /predict object that lacks a required field is
\* answered 400 with 'Missing required field: <name>', <name> the first
\* missing one in the order temperature, humidity, wind_speed.
C7_FirstMissingField ==
  (ModelLoaded /\ IsPredict /\ JsonObject /\ AnyMissing(request.body.doc))
  => /\ response.status = 400
     /\ response.error =
          "Missing required field: " \o FirstMissing(request.body.doc)

C7_Witness ==
  /\ ModelLoaded
  /\ IsPredict
  /\ JsonObject
  /\ request.body.doc.temperature = Str("hot")
  /\ request.body.doc.humidity = Absent
  /\ request.body.doc.wind_speed = Absent
  /\ response = ErrorResponse(400, "Missing required field: humidity")

\* C8 (as claimed): with a model loaded, /predict without a JSON body is
\* answered 400 'No JSON data provided', and /predict with unparseable JSON
\* is answered 400 with an error that contains 'Invalid JSON'.
C8_NoJsonAndInvalidJson ==
  (ModelLoaded /\ IsPredict)
  => /\ request.body.kind = "nonjson"
          => response = ErrorResponse(400, "No JSON data provided")
     /\ request.body.kind = "malformed"
          => response.status = 400 /\ response.error \in InvalidJsonErrors

\* C9: with a model loaded a batch list of 0 or more than 100 entries is
\* answered 400, and with the trained classifier loaded a list of 1 to 100
\* valid entries (100 included) is answered 200.
C9_BatchSizeLimits ==
  BatchList
  => /\ (ModelLoaded /\ (Len(BatchItems) = 0 \/ Len(BatchItems) > 100))
          => response.status = 400
     /\ (ClassifierLoaded /\ Len(BatchItems) \in 1..100
           /\ \A i \in 1..Len(BatchItems) : ValidReading(BatchItems[i]))
          => response.status = 200

C9_Witness ==
  /\ BatchList
  /\ ClassifierLoaded
  /\ Len(BatchItems) = 100
  /\ response.status = 200
  /\ response.count = 100

\* C10 (as claimed): with the trained classifier loaded, a batch of 1 to 100
\* entries with at least one invalid entry is answered 400 with 'Invalid
\* weather condition at index i: <message>', i the smallest index of an
\* entry that fails validation and <message> that entry's validation error.
C10_FirstInvalidIndex ==
  LET bad == {i \in 1..Len(BatchItems) : ~validate_input(BatchItems[i]).valid}
  IN (ClassifierLoaded /\ BatchList /\ Len(BatchItems) \in 1..100 /\ bad # {})
     => response =
          ErrorResponse(400,
            "Invalid weather condition at index " \o ToString(Min(bad) - 1)
              \o ": " \o validate_input(BatchItems[Min(bad)]).error)

\* The float a submitted value stands for once validation accepted it.
ValueOf(x) ==
  CASE x.k = "number" -> Fin(x.v)
    [] x.k = "boolean" -> Fin(x.v * Scale)
    [] x = Str("15") -> Fin(15 * Scale)
Submitted(d) ==
  [temperature |-> ValueOf(d.temperature),
   humidity |-> ValueOf(d.humidity),
   wind_speed |-> ValueOf(d.wind_speed)]

\* C11: with the trained classifier loaded, a batch of n valid entries
\* (1 <= n <= 100) is answered 200 with exactly n results in input order;
\* the result at position i has index i (0-based) and the suggestion,
\* confidence and weather_conditions of input entry i; count = n.
C11_BatchResultsInOrder ==
  (ClassifierLoaded /\ BatchList /\ Len(BatchItems) \in 1..100
     /\ \A i \in 1..Len(BatchItems) : ValidReading(BatchItems[i]))
  => /\ response.status = 200
     /\ Len(response.predictions) = Len(BatchItems)
     /\ response.count = Len(BatchItems)
     /\ \A i \in 1..Len(BatchItems) :
          LET r == response.predictions[i]
              e == BatchItems[i]
              x == <<e.temperature.v, e.humidity.v, e.wind_speed.v>>
          IN /\ r.index = i - 1
             /\ r.suggestion = ClfPredict(model, x)
             /\ r.confidence =
                  Round3(Max({ClfProba(model, x)[j] : j \in DOMAIN ClfProba(model, x)}))
             /\ r.weather_conditions = Submitted(e)

C11_Witness ==
  /\ ClassifierLoaded
  /\ BatchList
  /\ BatchItems = <<ValidA, ValidB>>
  /\ response.status = 200
  /\ response.predictions[2].index = 1
  /\ response.predictions[1].suggestion # response.predictions[2].suggestion

\* C12: a /predict/batch response carries either results for all submitted
\* entries (200, count = number submitted) or no predictions at all; never
\* results for a proper non-empty subset.
C12_AllOrNothing ==
  IsBatch
  => IF response.status = 200
     THEN /\ BatchList
          /\ Len(response.predictions) = Len(BatchItems)
          /\ response.count = Len(BatchItems)
     ELSE "predictions" \notin DOMAIN response

C12_Witness ==
  /\ BatchList
  /\ Len(BatchItems) > 1
  /\ Len(calls) > 0
  /\ response.status = 400
  /\ "predictions" \notin DOMAIN response

\* C13: in every 200 response of /predict and in every result of a 200
\* /predict/batch response, weather_conditions equals the numeric values of
\* the submitted fields; batch result i echoes input entry i.
C13_EchoEqualsInput ==
  /\ (IsPredict /\ response.status = 200)
       => response.weather_conditions = Submitted(request.body.doc)
  /\ (IsBatch /\ response.status = 200)
       => \A i \in 1..Len(BatchItems) :
            response.predictions[i].weather_conditions = Submitted(BatchItems[i])

C13_Witness ==
  /\ BatchList
  /\ BatchItems = <<ValidB, ValidA>>
  /\ response.status = 200
  /\ response.predictions[1].weather_conditions = Submitted(ValidB)
  /\ response.predictions[2].weather_conditions = Submitted(ValidA)

IsHealth == request.path = "/health"
IsProxyPredict == proxyRequest.path = "/predict"
IsApiStatus == proxyRequest.path = "/api-status"
\* The upstream call of the proxied request met this condition.
UpstreamMet(net) == upstreamCalls # <<>> /\ upstreamCalls[1].net = net

\* C14: GET /health is answered 200 with status 'healthy' in every state;
\* model_loaded is true exactly when a model file was present at startup,
\* and model_status is 'loaded' exactly when model_loaded is true,
\* 'not_loaded' otherwise.
C14_HealthReportsModelFile ==
  IsHealth
  => /\ response.status = 200
     /\ response.body.status = "healthy"
     /\ response.body.model_loaded <=> modelFile # "absent"
     /\ response.body.model_status =
          IF response.body.model_loaded THEN "loaded" ELSE "not_loaded"

C16_TrainThenMainServes ==
  [][(dataFile = Tree /\ phase = "imported" /\ startedBy' = "main")
       => (phase' = "serving" /\ model' = Tree)]_vars

\* C17: when the prediction service is reached and answers a proxied
\* POST /predict, the body it received is the client's JSON body unmodified,
\* and the proxy's response has the status code and JSON of its response.
C17_ProxyTransparent ==
  (IsProxyPredict /\ UpstreamMet("ok") /\ proxyRequest.body.kind = "json")
  => /\ IsPredict
     /\ request.body = proxyRequest.body
     /\ proxyResponse = response

\* C18: the proxy's POST /predict answers 503 'API server is not running'
\* when the prediction service is unreachable and 504 'API request timed
\* out' whenever the upstream call times out, while connecting or while
\* waiting for the response; neither is reported as the other.
C18_DistinctUpstreamErrors ==
  IsProxyPredict
  => /\ UpstreamMet("refused")
          => /\ proxyResponse.status = 503
             /\ proxyResponse.error =
                  "API server is not running at API_URL. Please start the API first."
     /\ (UpstreamMet("connect_timeout") \/ UpstreamMet("read_timeout"))
          => /\ proxyResponse.status = 504
             /\ proxyResponse.error = "API request timed out. Please try again."

\* C19: GET /api-status always answers 200: connected = true and status
\* 'healthy' exactly when the upstream GET /health returned 200,
\* connected = false and 'unhealthy' for another upstream status,
\* connected = false and 'unreachable' when the call fails or times out;
\* the step changes no state of the proxy or of the prediction service.
C19_ApiStatusProbe ==
  [][(Idle /\ proxyRequest'.path = "/api-status")
       => /\ proxyResponse'.status = 200
          /\ Len(upstreamCalls') = 1
          /\ LET net == upstreamCalls'[1].net
             IN /\ net = "ok"
                     => /\ request'.path = "/health"
                        /\ response'.status = 200
                        /\ proxyResponse'.connected
                        /\ proxyResponse'.state = "healthy"
                /\ net = "bad_gateway"
                     => /\ ~proxyResponse'.connected
                        /\ proxyResponse'.state = "unhealthy"
                /\ net \in {"refused", "connect_timeout", "read_timeout"}
                     => /\ ~proxyResponse'.connected
                        /\ proxyResponse'.state = "unreachable"
          /\ UNCHANGED <<model, phase, modelFile, dataFile, startedBy, flaskStrict>>]_vars

C19_Witness ==
  /\ IsApiStatus
  /\ startedBy = "main"
  /\ UpstreamMet("ok")
  /\ IsHealth
  /\ response.body.status = "healthy"
  /\ proxyResponse.connected
  /\ proxyResponse.state = "healthy"

\* C20: the classifier reference is written only during startup, before any
\* request is served; no handler writes it, so while the service serves the
\* model stays what it was right after startup.
C20_ModelWrittenOnlyAtStartup ==
  [][/\ model' # model
          => (phase = "imported" /\ startedBy = "" /\ startedBy' = "main")
     /\ phase = "serving"
          => /\ model' = model
             /\ model = IF startedBy = "main" THEN load_model(modelFile) ELSE None]_vars

C20_Witness ==
  /\ phase = "serving"
  /\ startedBy = "main"
  /\ model = Tree
  /\ IsBatch
  /\ Len(calls) > 0
  /\ response.status = 500

IsHome == request.path = "/"

\* C22: GET / is answered 200 in every state: with the content of
\* static/index.html as text/html when that file exists, otherwise with the
\* JSON API description (message, version, endpoints, usage).
C22_HomeAlways200 ==
  IsHome
  => /\ response.status = 200
     /\ IF request.static.k = "absent"
        THEN /\ response.content_type = "application/json"
             /\ response.body.message = ApiInfo.message
             /\ {"version", "endpoints", "usage"} \subseteq DOMAIN response.body
        ELSE /\ response.content_type = "text/html"
             /\ response.body = request.static.content

\* The vector [temperature, humidity, wind_speed] of a submitted reading.
Vector(e) ==
  <<ValueOf(e.temperature).v, ValueOf(e.humidity).v, ValueOf(e.wind_speed).v>>
\* c thousandths is p (in 1/ProbScale) rounded to 3 decimal places.
IsRounded3(c, p) ==
  LET d == c * ProbScale - 1000 * p
  IN 2 * (IF d < 0 THEN -d ELSE d) <= ProbScale
MaxProba(m, x) == Max({ClfProba(m, x)[j] : j \in DOMAIN ClfProba(m, x)})

\* C23: for every scored reading the classifier is given the vector
\* [temperature, humidity, wind_speed]; the suggestion is the classifier's
\* label for that vector and the confidence the maximum of its class
\* probabilities for the same vector, rounded to 3 decimal places.
C23_VectorLabelConfidence ==
  /\ (IsPredict /\ response.status = 200)
       => LET x == Vector(request.body.doc)
          IN /\ calls = << <<"predict", x>>, <<"predict_proba", x>> >>
             /\ response.suggestion = ClfPredict(model, x)
             /\ IsRounded3(response.confidence, MaxProba(model, x))
  /\ (IsBatch /\ calls # <<>>)
       => \A j \in 1..Len(calls) :
            calls[j][2] = Vector(BatchItems[(j + 1) \div 2])
  /\ (IsBatch /\ response.status = 200)
       => \A i \in 1..Len(BatchItems) :
            LET x == Vector(BatchItems[i])
            IN /\ calls[2 * i - 1] = <<"predict", x>>
               /\ calls[2 * i] = <<"predict_proba", x>>
               /\ response.predictions[i].suggestion = ClfPredict(model, x)
               /\ IsRounded3(response.predictions[i].confidence,
                             MaxProba(model, x))

C23_Witness ==
  /\ IsPredict
  /\ ClassifierLoaded
  /\ request.body.doc = ValidB
  /\ response.status = 200
  /\ response.confidence \notin {0, 1000}
  /\ calls[1][2] = <<TempMin * Scale, HumidityMax * Scale, WindMin * Scale>>

\* The answer a request gets when it is handled alone.
Alone(th) ==
  IF th.path = "/predict"
  THEN predict(model, th.body, flaskStrict)
  ELSE predict_batch(model, th.body, flaskStrict)

\* C21: however the steps of concurrently handled requests interleave, each
\* response is the one the same request gets when handled alone against the
\* same model.
C21_ResponsesIndependent ==
  \A t \in Threads : threads[t].pc = "done" => threads[t].resp = Alone(threads[t])

C21_Witness ==
  /\ ClassifierLoaded
  /\ threads[1].pc = "done"
  /\ threads[1].path = "/predict/batch"
  /\ threads[1].resp.status = 200
  /\ Len(threads[1].resp.predictions) = 3
  /\ threads[2].pc = "loop_score"
  /\ threads[2].i = 2
  /\ Len(threads[2].results) = 2

\* A thread inside or after the loop of predict_batch.
InLoop(th) ==
  th.path = "/predict/batch" /\ th.pc \in {"loop", "loop_score", "done"}
    /\ th.log # <<>>
Items(th) == th.data.wc.items
\* Entry k (1-based) is the first the classifier fails on, all entries
\* before it having been validated and scored.
FailsAt(th, k) ==
  /\ \A e \in 1..k : ValidReading(Items(th)[e])
  /\ \A e \in 1..(k - 1) : ~ClfRaises(model, Vector(Items(th)[e]))
  /\ ClfRaises(model, Vector(Items(th)[k]))

\* C24: when the entries before index k were validated and scored and the
\* classifier call for entry k fails, the batch is answered 500 'Prediction
\* failed for condition at index k', the results of entries 0..k-1 are not
\* in the response, and no entry after k is validated or scored.
C24_PredictionFailureAtK ==
  \A t \in Threads :
    LET th == threads[t]
    IN (InLoop(th) /\ th.pc = "done")
       => \A k \in 1..Len(Items(th)) :
            FailsAt(th, k)
            => /\ th.resp.status = 500
               /\ th.resp.error =
                    "Prediction failed for condition at index "
                      \o ToString(k - 1) \o ": classifier raised"
               /\ "predictions" \notin DOMAIN th.resp
               /\ \A p \in DOMAIN th.log : th.log[p][2] <= k - 1
               /\ Len(th.log) = 3 * (k - 1) + 2

C24_Witness ==
  /\ model = Faulty
  /\ threads[1].pc = "done"
  /\ InLoop(threads[1])
  /\ Len(Items(threads[1])) = 3
  /\ FailsAt(threads[1], 2)
  /\ threads[1].resp.status = 500
  /\ Len(threads[1].results) = 1

\* The order of one loop pass after another: validate i, predict i,
\* predict_proba i, validate i+1, ...
InOrder(log) ==
  \A p \in DOMAIN log :
    log[p] = <<(<<"validate", "predict", "predict_proba">>)[((p - 1) % 3) + 1],
               (p - 1) \div 3>>

\* C25: within one batch request the entries are processed sequentially in
\* index order, entry i validated and then scored before entry i+1 is
\* validated; the classifier is never invoked for an entry at or after the
\* first invalid one, and when the request is answered for a first invalid
\* entry at index j it has been invoked for every entry 0..j-1.
C25_SequentialBatch ==
  \A t \in Threads :
    LET th == threads[t]
    IN InLoop(th)
       => /\ InOrder(th.log)
          /\ \A p \in DOMAIN th.log :
               th.log[p][1] # "validate"
               => \A e \in 1..(th.log[p][2] + 1) : ValidReading(Items(th)[e])
          /\ th.pc = "done"
               => \A j \in 1..Len(Items(th)) :
                    (/\ \A e \in 1..(j - 1) :
                          /\ ValidReading(Items(th)[e])
                          /\ ~ClfRaises(model, Vector(Items(th)[e]))
                     /\ ~ValidReading(Items(th)[j]))
                    => /\ Len(th.log) = 3 * (j - 1) + 1
                       /\ th.resp.status # 200

C25_Witness ==
  /\ threads[2].pc = "done"
  /\ InLoop(threads[2])
  /\ threads[2].resp.status = 400
  /\ Len(Items(threads[2])) = 3
  /\ threads[2].log =
       << <<"validate", 0>>, <<"predict", 0>>, <<"predict_proba", 0>>,
          <<"validate", 1>> >>

\* C26: nothing is retried: a proxied /predict makes at most one upstream
\* POST and /api-status exactly one upstream GET, whatever the call meets;
\* the service calls predict once and predict_proba once per scored
\* reading, and nothing again after a failure.
C26_NoRetries ==
  /\ IsProxyPredict
       => /\ Len(upstreamCalls) <= 1
          /\ \A j \in DOMAIN upstreamCalls :
               upstreamCalls[j].method = "POST" /\ upstreamCalls[j].path = "/predict"
  /\ IsApiStatus
       => /\ Len(upstreamCalls) = 1
          /\ upstreamCalls[1].method = "GET"
          /\ upstreamCalls[1].path = "/health"
  /\ IsPredict
       => /\ Len(calls) <= 2
          /\ response.status = 200
               => (calls[1][1] = "predict" /\ calls[2][1] = "predict_proba")
          /\ (response.status # 200 /\ calls # <<>>)
               => (Len(calls) = 1 /\ calls[1][1] = "predict")
  /\ (IsBatch /\ calls # <<>>)
       => /\ Len(calls) <= 2 * Len(BatchItems)
          /\ \A j \in DOMAIN calls :
               calls[j][1] = IF j % 2 = 1 THEN "predict" ELSE "predict_proba"
          /\ response.status = 200 => Len(calls) = 2 * Len(BatchItems)

C26_Witness ==
  /\ IsProxyPredict
  /\ UpstreamMet("read_timeout")
  /\ Len(upstreamCalls) = 1
  /\ proxyResponse.status = 504

ModelNotLoaded ==
  /\ "error" \in DOMAIN response
  /\ response.error = "Model not loaded. Please ensure the model file exists."

\* C27: a service started through main() serves only if load_model returned
\* a model; if loading fails main() returns without starting the server, so
\* whenever a main()-started server is serving the model is set and no
\* request is answered 'Model not loaded'.
C27_MainServesOnlyWithModel ==
  startedBy = "main"
  => /\ model = load_model(modelFile)
     /\ phase = IF load_model(modelFile) = None THEN "exited" ELSE "serving"
     /\ phase = "serving" => model # None
     /\ (IsPredict \/ IsBatch) => ~ModelNotLoaded

C27_Witness ==
  /\ startedBy = "main"
  /\ phase = "serving"
  /\ model = Faulty
  /\ IsPredict
  /\ response.status = 500
  /\ ~ModelNotLoaded

\* C28: with a model loaded, a batch of exactly one entry behaves like
\* /predict on that entry: a valid entry gives the single result with index
\* 0 and the suggestion, confidence and weather_conditions of /predict; an
\* invalid entry is answered 400 with the validation message of /predict
\* prefixed by 'Invalid weather condition at index 0: '.
C28_SingleEntryLikePredict ==
  (ModelLoaded /\ BatchList /\ Len(BatchItems) = 1)
  => LET e == BatchItems[1]
         v == validate_input(e)
         p == predict(model, JsonBody(e), flaskStrict)
     IN IF v.raised = "" /\ v.valid
        THEN p.status = 200
             => /\ response.status = 200
                /\ response.predictions =
                     << [index |-> 0, suggestion |-> p.suggestion,
                         confidence |-> p.confidence,
                         weather_conditions |-> p.weather_conditions] >>
        ELSE /\ p.status = 400
             /\ response =
                  ErrorResponse(400,
                    "Invalid weather condition at index 0: " \o p.error)

\* What /api-status answers when the serving prediction service is reached.
ProbeNow == api_status(Upstream("ok", health_check(model)))
ValidProxied ==
  JsonBody(Obj(Num(15 * Scale), Num(50 * Scale), Num(WindMax * Scale)))

\* C29: /api-status reports connected = true whenever the prediction
\* service answers GET /health, with or without a model loaded; a proxied
\* POST /predict with a valid reading is then still answered 500 'Model not
\* loaded' when the model is unset.
C29_ConnectedWithoutModel ==
  /\ phase = "serving" => (ProbeNow.connected /\ ProbeNow.state = "healthy")
  /\ (IsApiStatus /\ UpstreamMet("ok"))
       => /\ proxyResponse.connected
          /\ proxyResponse.state = "healthy"
          /\ response.body.model_loaded <=> model # None
  /\ (IsProxyPredict /\ UpstreamMet("ok") /\ model = None
        /\ proxyRequest.body = ValidProxied)
       => /\ proxyResponse.status = 500
          /\ proxyResponse.error =
               "Model not loaded. Please ensure the model file exists."

C29_Witness ==
  /\ phase = "serving"
  /\ model = None
  /\ ProbeNow.connected
  /\ IsProxyPredict
  /\ UpstreamMet("ok")
  /\ proxyRequest.body = ValidProxied
  /\ proxyResponse.status = 500
  /\ proxyResponse.error = "Model not loaded. Please ensure the model file exists."

\* C30: a body sent to the proxy's POST /predict with a JSON content type
\* that does not parse is answered 500 with the parse error's text; no
\* upstream call is made, so the prediction service's 400 'Invalid JSON'
\* is neither produced nor relayed.
C30_ProxyParseError ==
  (IsProxyPredict /\ proxyRequest.body.kind = "malformed")
  => /\ proxyResponse = ErrorResponse(500, "400 Bad Request")
     /\ upstreamCalls = <<>>
     /\ request = NoRequest
     /\ response = NoResponse

C30_Witness ==
  /\ IsProxyPredict
  /\ proxyRequest.body.kind = "malformed"
  /\ phase = "serving"
  /\ ModelLoaded
  /\ proxyResponse.status = 500
  /\ upstreamCalls = <<>>

====
